---- MODULE Spec2Model ----
(***************************************************************************)
(* State-machine model of the Flask farming application (src/app.py,       *)
(* src/models/models.py, src/config.py): the User and IoTReading tables,   *)
(* the Flask-Login session cookie, the register / login / admin_login /    *)
(* logout handlers, the dashboards, the NDVI endpoints and the IoT         *)
(* endpoints.                                                              *)
(*                                                                         *)
(* Text is modelled as a sequence of one-character strings so that         *)
(* str.strip(), str(id) and int(uid) are computed, not assumed.            *)
(***************************************************************************)
EXTENDS Integers, Sequences, FiniteSets, Bags, TLC

VARIABLES users, readings, session, inflight, clock, ee_ok, resp

vars == <<users, readings, session, inflight, clock, ee_ok, resp>>

----------------------------------------------------------------------------
(* Bounds *)

\* cap on the rows of the User table
MaxUsers == 3
\* cap on the rows of the IoTReading table
MaxReadings == 2
\* last value of the one-second database clock
MaxClock == 1
\* number of request threads that can be inside register() at once
NumWorkers == 2

----------------------------------------------------------------------------
(* Text helpers *)

Whitespace == {" "}

RECURSIVE lstrip(_)
lstrip(s) ==
    IF s # <<>> /\ Head(s) \in Whitespace THEN lstrip(Tail(s)) ELSE s

RECURSIVE rstrip(_)
rstrip(s) ==
    IF s # <<>> /\ s[Len(s)] \in Whitespace
    THEN rstrip(SubSeq(s, 1, Len(s) - 1))
    ELSE s

\* str.strip(): drop leading and trailing whitespace
strip(s) == rstrip(lstrip(s))

Digits == <<"0", "1", "2", "3", "4", "5", "6", "7", "8", "9">>

IsDigit(c) == \E d \in 1..10 : Digits[d] = c

DigitVal(c) == (CHOOSE d \in 1..10 : Digits[d] = c) - 1

\* str(n) for a non-negative integer
RECURSIVE py_str(_)
py_str(n) ==
    IF n < 10 THEN <<Digits[n + 1]>>
    ELSE py_str(n \div 10) \o <<Digits[(n % 10) + 1]>>

RECURSIVE DecimalValue(_)
DecimalValue(s) ==
    IF Len(s) = 1 THEN DigitVal(s[1])
    ELSE 10 * DecimalValue(SubSeq(s, 1, Len(s) - 1)) + DigitVal(s[Len(s)])

\* int(s) raises ValueError: s is not a run of decimal digits
int_raises(s) == s = <<>> \/ \E i \in 1..Len(s) : ~IsDigit(s[i])

\* int(s) on a session identifier, when it does not raise
py_int(s) == DecimalValue(s)

----------------------------------------------------------------------------
(* Configuration and fixed credentials *)

ADMIN_USERNAME == <<"a", "d", "m", "i", "n">>
ADMIN_PASSWORD == "admin123"

\* FakeAdmin.get_id()
FakeAdmin_get_id == <<"a", "d", "m", "i", "n">>

FakeAdmin ==
    [id |-> FakeAdmin_get_id, username |-> ADMIN_USERNAME, role |-> "admin"]

\* Python None / the anonymous user
None == [none |-> TRUE]

\* no "_user_id" key in the session cookie
NoSession == <<>>

----------------------------------------------------------------------------
(* Inputs of the authentication forms *)

Bob == <<"b", "o", "b">>

UsernameInputs ==
    { <<>>, <<" ">>, Bob, <<" ">> \o Bob,
      ADMIN_USERNAME, ADMIN_USERNAME \o <<" ">> }

PasswordInputs == { "", "pw", ADMIN_PASSWORD }

Salts == { "s1" }

----------------------------------------------------------------------------
(* werkzeug.security *)

\* generate_password_hash: a salted digest of the password
generate_password_hash(password, salt) ==
    [salt |-> salt, digest |-> <<salt, password>>]

\* check_password_hash: recompute the digest with the stored salt
check_password_hash(pwhash, password) ==
    pwhash.digest = <<pwhash.salt, password>>

----------------------------------------------------------------------------
(* User table and Flask-Login *)

Rows(tbl) == { tbl[i] : i \in 1..Len(tbl) }

\* a lookup that only ever inspects the first row
filter_by_username_first_row(tbl, username) ==
    IF tbl # <<>> /\ tbl[1].username = username THEN tbl[1] ELSE None

\* User.query.filter_by(username=...).first()
filter_by_username(tbl, username) ==
    IF \E i \in 1..Len(tbl) : tbl[i].username = username
    THEN tbl[CHOOSE i \in 1..Len(tbl) : tbl[i].username = username]
    ELSE None

\* User.query.get(id)
query_get(tbl, id) ==
    IF \E i \in 1..Len(tbl) : tbl[i].id = id
    THEN tbl[CHOOSE i \in 1..Len(tbl) : tbl[i].id = id]
    ELSE None

\* UserMixin.get_id(): str(self.id)
User_get_id(user) == py_str(user.id)

\* the user_loader callback
load_user(tbl, uid) ==
    IF int_raises(uid) THEN None ELSE query_get(tbl, py_int(uid))

\* flask_login current_user for a request carrying the cookie `sid`
current_user(tbl, sid) ==
    IF sid = NoSession THEN None ELSE load_user(tbl, sid)

is_authenticated(tbl, sid) == current_user(tbl, sid) # None

\* @login_required lets the request through
login_required(tbl, sid) == is_authenticated(tbl, sid)

\* the UNIQUE constraint on User.username rejects the insert
unique_violation(tbl, username) ==
    \E i \in 1..Len(tbl) : tbl[i].username = username

\* the last answered request: the handler, the username field of its form
\* (when it has one), the outcome and the payload of the answer
Response(op, form, status, out) ==
    [op |-> op, form |-> form, status |-> status, out |-> out]

NoOut == [none |-> TRUE]

NoForm == [none |-> TRUE]

Form(form_username) == [username |-> form_username]

----------------------------------------------------------------------------
(* Authentication handlers *)

\* a register() request between its lookup and its commit
Pending(username, password) == [username |-> username, password |-> password]

\* register(), lines 236-243: read the form, look the username up, validate
register_query(form_username, form_password) ==
    LET username == strip(form_username)
    IN  /\ IF filter_by_username(users, username) # None
           THEN /\ resp' = Response("register", Form(form_username),
                                    "conflict", NoOut)
                /\ UNCHANGED inflight
           ELSE IF username = <<>> \/ form_password = ""
           THEN /\ resp' = Response("register", Form(form_username),
                                    "validation", NoOut)
                /\ UNCHANGED inflight
           ELSE /\ BagCardinality(inflight) < NumWorkers
                /\ inflight' =
                      inflight (+) SetToBag({Pending(username, form_password)})
                /\ UNCHANGED resp
        /\ UNCHANGED <<users, readings, session, clock, ee_ok>>

\* register(), lines 244-249: hash, add the row, commit
register_commit(r, salt, commit_ok) ==
    /\ BagIn(r, inflight)
    /\ Len(users) < MaxUsers
    /\ LET row == [id |-> Len(users) + 1,
                   username |-> r.username,
                   password |-> generate_password_hash(r.password, salt),
                   role |-> "farmer"]
       IN  IF unique_violation(users, r.username) \/ ~commit_ok
           THEN /\ resp' = Response("register", Form(r.username),
                                    "error500", NoOut)
                /\ UNCHANGED users
           ELSE /\ users' = Append(users, row)
                /\ resp' = Response("register", Form(r.username),
                                    "created", NoOut)
    /\ inflight' = inflight (-) SetToBag({r})
    /\ UNCHANGED <<readings, session, clock, ee_ok>>

\* login(), POST
login(form_username, form_password) ==
    LET username == strip(form_username)
        user == filter_by_username(users, username)
    IN  /\ IF /\ user # None
              /\ check_password_hash(user.password, form_password)
              /\ user.role = "farmer"
           THEN /\ session' = User_get_id(user)
                /\ resp' = Response("login", Form(form_username),
                                    "redirect_farmer_dashboard", NoOut)
           ELSE /\ resp' = Response("login", Form(form_username),
                                    "invalid", NoOut)
                /\ UNCHANGED session
        /\ UNCHANGED <<users, readings, inflight, clock, ee_ok>>

\* the comparison with the password test left out
admin_credentials_ok_username_only(username, password) ==
    username = ADMIN_USERNAME

\* the credential comparison of admin_login()
admin_credentials_ok(username, password) ==
    username = ADMIN_USERNAME /\ password = ADMIN_PASSWORD

\* admin_login(), POST
admin_login(form_username, form_password) ==
    LET username == strip(form_username)
    IN  /\ IF admin_credentials_ok(username, form_password)
           THEN /\ session' = FakeAdmin_get_id
                /\ resp' = Response("admin_login", Form(form_username),
                                    "redirect_admin_dashboard", NoOut)
           ELSE /\ resp' = Response("admin_login", Form(form_username),
                                    "invalid", NoOut)
                /\ UNCHANGED session
        /\ UNCHANGED <<users, readings, inflight, clock, ee_ok>>

\* logout()
logout ==
    /\ IF login_required(users, session)
       THEN /\ session' = NoSession
            /\ resp' = Response("logout", NoForm, "redirect_login", NoOut)
       ELSE /\ resp' = Response("logout", NoForm, "unauthorized", NoOut)
            /\ UNCHANGED session
    /\ UNCHANGED <<users, readings, inflight, clock, ee_ok>>

\* farmer_dashboard()
farmer_dashboard ==
    /\ IF login_required(users, session)
       THEN resp' = Response("farmer_dashboard", NoForm, "rendered", NoOut)
       ELSE resp' = Response("farmer_dashboard", NoForm, "unauthorized", NoOut)
    /\ UNCHANGED <<users, readings, session, inflight, clock, ee_ok>>

\* the role test of admin_dashboard(): TRUE when the request is turned away
admin_access_denied(user) ==
    user.role # "admin" /\ user.username # ADMIN_USERNAME

\* admin_dashboard()
admin_dashboard ==
    LET user == current_user(users, session)
    IN  /\ IF ~login_required(users, session)
           THEN resp' = Response("admin_dashboard", NoForm, "unauthorized",
                                 NoOut)
           ELSE IF admin_access_denied(user)
           THEN resp' = Response("admin_dashboard", NoForm, "admin_required",
                                 [user |-> user])
           ELSE resp' = Response("admin_dashboard", NoForm, "rendered",
                                 [user |-> user, users |-> users])
        /\ UNCHANGED <<users, readings, session, inflight, clock, ee_ok>>

----------------------------------------------------------------------------
(* JSON bodies of the IoT endpoint *)

JNull == [t |-> "null", n |-> 0, s |-> ""]
JNum(n) == [t |-> "num", n |-> n, s |-> ""]
JStr(s) == [t |-> "str", n |-> 0, s |-> s]

\* config.IOT_API_KEY
IOT_API_KEY == JStr("SAME KEY FOR BOTH FLASK AND IOT ")

SensorFields ==
    <<"cap_soil_pct", "res_soil_pct", "rain_pct",
      "water_level_pct", "temperature_c", "humidity_pct">>

SensorNames == { SensorFields[i] : i \in 1..Len(SensorFields) }

\* request.get_json(force=True) raised BadRequest: the body is not JSON
InvalidJson == [kind |-> "invalid", obj |-> <<>>]
\* a JSON array with elements: truthy, but not a dict
JsonArray == [kind |-> "array", obj |-> <<>>]
JsonObject(f) == [kind |-> "object", obj |-> f]

Distinct ==
    ("cap_soil_pct" :> JNum(1)) @@ ("res_soil_pct" :> JNum(2)) @@
    ("rain_pct" :> JNum(3)) @@ ("water_level_pct" :> JNum(4)) @@
    ("temperature_c" :> JNum(5)) @@ ("humidity_pct" :> JNum(6))

UploadBodies ==
    { InvalidJson,
      JsonArray,
      JsonObject(<<>>),
      JsonObject("temperature_c" :> JNum(7)),
      JsonObject(("api_key" :> JStr("wrong")) @@ Distinct),
      JsonObject(("api_key" :> JNull) @@ Distinct),
      JsonObject("api_key" :> IOT_API_KEY),
      JsonObject(("api_key" :> IOT_API_KEY) @@ Distinct),
      JsonObject(("api_key" :> IOT_API_KEY) @@ ("temperature_c" :> JNum(7))
                 @@ ("humidity_pct" :> JNull) @@ ("rain_pct" :> JNum(0))),
      JsonObject(("api_key" :> IOT_API_KEY) @@ ("rain_pct" :> JStr("abc"))
                 @@ ("temperature_c" :> JNum(7))),
      JsonObject(("api_key" :> IOT_API_KEY) @@ ("rain_pct" :> JStr("7"))) }

\* dict.get(key): None when the key is absent
dict_get(obj, key) == IF key \in DOMAIN obj THEN obj[key] ELSE JNull

\* Python truthiness of a parsed body: `not data`
body_truthy(body) ==
    CASE body.kind = "object" -> DOMAIN body.obj # {}
      [] body.kind = "array" -> TRUE
      [] OTHER -> FALSE

\* Python truthiness of a JSON scalar
truthy(v) ==
    CASE v.t = "null" -> FALSE
      [] v.t = "num" -> v.n # 0
      [] v.t = "str" -> v.s # ""

\* `x or 0.0`
or_zero(v) == IF truthy(v) THEN v ELSE JNum(0)

\* strings that float() parses, with their values
NumericStrings == ("7" :> 7)

\* float(v) raises ValueError / TypeError
float_raises(v) ==
    CASE v.t = "num" -> FALSE
      [] v.t = "str" -> v.s \notin DOMAIN NumericStrings
      [] OTHER -> TRUE

\* float(v) when it does not raise
py_float(v) == IF v.t = "num" THEN v.n ELSE NumericStrings[v.s]

\* float(data.get(name) or 0.0)
sensor_value(obj, name) == py_float(or_zero(dict_get(obj, name)))

\* the constructor call with two keyword arguments exchanged
IoTReading_swapped(obj, id, now) ==
    [id |-> id,
     timestamp |-> now,
     cap_soil_pct |-> sensor_value(obj, "res_soil_pct"),
     res_soil_pct |-> sensor_value(obj, "cap_soil_pct"),
     rain_pct |-> sensor_value(obj, "rain_pct"),
     water_level_pct |-> sensor_value(obj, "water_level_pct"),
     temperature_c |-> sensor_value(obj, "temperature_c"),
     humidity_pct |-> sensor_value(obj, "humidity_pct")]

\* the IoTReading(...) constructor call of api_iot_upload with the defaults
\* of the model class: auto-increment id, CURRENT_TIMESTAMP
IoTReading(obj, id, now) ==
    [id |-> id,
     timestamp |-> now,
     cap_soil_pct |-> sensor_value(obj, "cap_soil_pct"),
     res_soil_pct |-> sensor_value(obj, "res_soil_pct"),
     rain_pct |-> sensor_value(obj, "rain_pct"),
     water_level_pct |-> sensor_value(obj, "water_level_pct"),
     temperature_c |-> sensor_value(obj, "temperature_c"),
     humidity_pct |-> sensor_value(obj, "humidity_pct")]

----------------------------------------------------------------------------
(* IoT endpoints *)

\* api_iot_upload()
api_iot_upload(body, commit_ok) ==
    /\ IF body.kind = "invalid"
       THEN /\ resp' = Response("iot_upload", NoForm, "400",
                                [error |-> "bad request"])
            /\ UNCHANGED readings
       ELSE IF ~body_truthy(body)
       THEN /\ resp' = Response("iot_upload", NoForm, "400",
                                [error |-> "no json"])
            /\ UNCHANGED readings
       ELSE IF body.kind # "object"
       THEN /\ resp' = Response("iot_upload", NoForm, "unhandled",
                                [error |-> "AttributeError"])
            /\ UNCHANGED readings
       ELSE IF dict_get(body.obj, "api_key") # IOT_API_KEY
       THEN /\ resp' = Response("iot_upload", NoForm, "403",
                                [error |-> "invalid api_key"])
            /\ UNCHANGED readings
       ELSE IF \E k \in SensorNames :
                   float_raises(or_zero(dict_get(body.obj, k)))
       THEN /\ resp' = Response("iot_upload", NoForm, "500",
                                [error |-> "ValueError"])
            /\ UNCHANGED readings
       ELSE IF ~commit_ok
       THEN /\ resp' = Response("iot_upload", NoForm, "500",
                                [error |-> "commit"])
            /\ UNCHANGED readings
       ELSE LET r == IoTReading(body.obj, Len(readings) + 1, clock)
            IN  /\ Len(readings) < MaxReadings
                /\ readings' = Append(readings, r)
                /\ resp' = Response("iot_upload", NoForm, "200", [id |-> r.id])
    /\ UNCHANGED <<users, session, inflight, clock, ee_ok>>

\* the rows ORDER BY timestamp DESC may put first: every row that carries
\* the greatest timestamp, the order among equal keys being unspecified
order_by_timestamp_desc_first(tbl) ==
    { r \in Rows(tbl) : \A o \in Rows(tbl) : o.timestamp <= r.timestamp }

\* the JSON of a reading returned by api_latest_iot
reading_json(r) ==
    [timestamp |-> r.timestamp,
     cap_soil_pct |-> r.cap_soil_pct,
     res_soil_pct |-> r.res_soil_pct,
     rain_pct |-> r.rain_pct,
     water_level_pct |-> r.water_level_pct,
     temperature_c |-> r.temperature_c,
     humidity_pct |-> r.humidity_pct]

\* api_latest_iot()
api_latest_iot ==
    /\ IF ~login_required(users, session)
       THEN resp' = Response("latest_iot", NoForm, "unauthorized", NoOut)
       ELSE IF readings = <<>>
       THEN resp' = Response("latest_iot", NoForm, "404",
                             [error |-> "no readings"])
       ELSE \E r \in order_by_timestamp_desc_first(readings) :
               resp' = Response("latest_iot", NoForm, "200", reading_json(r))
    /\ UNCHANGED <<users, readings, session, inflight, clock, ee_ok>>

\* the database clock (one-second resolution of CURRENT_TIMESTAMP) advances
Tick ==
    /\ clock < MaxClock
    /\ clock' = clock + 1
    /\ UNCHANGED <<users, readings, session, inflight, ee_ok, resp>>

----------------------------------------------------------------------------
(* Earth Engine adapters.  `mode` is what the provider does for the calls  *)
(* of one request: "ok" (a scene exists and every call answers),           *)
(* "no_scene" (the filtered collection is empty) or "error" (the calls     *)
(* raise: authentication or network failure).                              *)

ProviderModes == { "ok", "no_scene", "error" }

\* get_latest_s2_image: None only without Earth Engine; otherwise the lazy
\* handle of collection.first(), also when the collection is empty
get_latest_s2_image(eeok, mode) ==
    IF ~eeok THEN None ELSE [image |-> mode]

\* a server round trip on an image (getMapId, reduceRegion(...).getInfo())
\* raises when the image is the null of an empty collection or the call fails
image_call_raises(img) == img.image \in { "no_scene", "error" }

\* collection.map(...).getInfo() raises when the call fails
collection_call_raises(mode) == mode = "error"

Returned(v) == [raised |-> FALSE, value |-> v]
Raised == [raised |-> TRUE, value |-> None]

\* get_point_ndvi: (ndvi_value, html)
get_point_ndvi(eeok, mode) ==
    LET img == get_latest_s2_image(eeok, mode)
    IN  IF ~eeok
        THEN Returned([ndvi_value |-> "null", html |-> "ndvi_unavailable"])
        ELSE IF img = None
        THEN Returned([ndvi_value |-> "null", html |-> "no_image"])
        ELSE IF image_call_raises(img)
        THEN Returned([ndvi_value |-> "null", html |-> "ndvi_map_error"])
        ELSE Returned([ndvi_value |-> "number", html |-> "ndvi_map"])

\* get_true_color_map: html
get_true_color_map(eeok, mode) ==
    LET img == get_latest_s2_image(eeok, mode)
    IN  IF ~eeok THEN Returned("true_color_unavailable")
        ELSE IF img = None THEN Returned("bare_map")
        ELSE IF image_call_raises(img) THEN Returned("true_color_error")
        ELSE Returned("true_color_map")

\* get_ndvi_timeseries: (dates, values); getInfo() is not guarded
get_ndvi_timeseries(eeok, mode) ==
    IF ~eeok THEN Returned([dates |-> <<>>, values |-> <<>>])
    ELSE IF collection_call_raises(mode) THEN Raised
    ELSE IF mode = "no_scene" THEN Returned([dates |-> <<>>, values |-> <<>>])
    ELSE Returned([dates |-> <<"d1", "d2">>, values |-> <<"v1", "v2">>])

\* get_polygon_ndvi_stats: the four statistics or None; getInfo() is not
\* guarded
get_polygon_ndvi_stats(eeok, mode) ==
    LET img == get_latest_s2_image(eeok, mode)
    IN  IF ~eeok THEN Returned("null")
        ELSE IF img = None THEN Returned("null")
        ELSE IF image_call_raises(img) THEN Raised
        ELSE Returned("stats")

\* fetch_weather: (weather, forecast), or (None, None) when a call fails
fetch_weather(weather_ok) ==
    IF weather_ok THEN [weather |-> "json", forecast |-> "json"]
    ELSE [weather |-> "null", forecast |-> "null"]

\* api_point_ndvi()
api_point_ndvi(mode, weather_ok) ==
    LET p == get_point_ndvi(ee_ok, mode)
        tc == get_true_color_map(ee_ok, mode)
        ts == get_ndvi_timeseries(ee_ok, mode)
        w == fetch_weather(weather_ok)
    IN  /\ IF ~login_required(users, session)
           THEN resp' = Response("point_ndvi", NoForm, "unauthorized", NoOut)
           ELSE IF p.raised \/ tc.raised \/ ts.raised
           THEN resp' = Response("point_ndvi", NoForm, "unhandled",
                                 [mode |-> mode])
           ELSE resp' = Response("point_ndvi", NoForm, "200",
                                 [mode |-> mode,
                                  ndvi_value |-> p.value.ndvi_value,
                                  ndvi_map |-> p.value.html,
                                  true_color |-> tc.value,
                                  ts_dates |-> ts.value.dates,
                                  ts_values |-> ts.value.values,
                                  weather |-> w.weather,
                                  forecast |-> w.forecast])
        /\ UNCHANGED <<users, readings, session, inflight, clock, ee_ok>>

\* api_polygon_ndvi()
api_polygon_ndvi(mode) ==
    LET st == get_polygon_ndvi_stats(ee_ok, mode)
    IN  /\ IF ~login_required(users, session)
           THEN resp' = Response("polygon_ndvi", NoForm, "unauthorized", NoOut)
           ELSE IF st.raised
           THEN resp' = Response("polygon_ndvi", NoForm, "unhandled",
                                 [mode |-> mode])
           ELSE resp' = Response("polygon_ndvi", NoForm, "200",
                                 [mode |-> mode, stats |-> st.value])
        /\ UNCHANGED <<users, readings, session, inflight, clock, ee_ok>>

----------------------------------------------------------------------------
(* Specification of the authentication layer *)

Init ==
    /\ users = <<>>
    /\ readings = <<>>
    /\ session = NoSession
    /\ inflight = EmptyBag
    /\ clock = 0
    /\ ee_ok \in BOOLEAN
    /\ resp = Response("start", NoForm, "none", NoOut)

Next ==
    \/ \E u \in UsernameInputs, p \in PasswordInputs : register_query(u, p)
    \/ \E r \in BagToSet(inflight), s \in Salts, ok \in BOOLEAN :
          register_commit(r, s, ok)
    \/ \E u \in UsernameInputs, p \in PasswordInputs : login(u, p)
    \/ \E u \in UsernameInputs, p \in PasswordInputs : admin_login(u, p)
    \/ logout
    \/ farmer_dashboard
    \/ admin_dashboard

Spec == Init /\ [][Next]_vars

----------------------------------------------------------------------------
(* Claims about the authentication layer (checked under Spec) *)

LoginSucceeded ==
    resp'.op = "login" /\ resp'.status = "redirect_farmer_dashboard"

\* C1: login(u, p) succeeds only if the User table holds a row for the
\* submitted username whose stored hash matches p and whose role is farmer,
\* and login with the fixed admin credential pair never succeeds.
C1_FarmerLoginOnly ==
    [][\A u \in UsernameInputs, p \in PasswordInputs :
          (LoginSucceeded /\ login(u, p)) =>
             /\ \E row \in Rows(users) :
                   /\ row.username = strip(u)
                   /\ check_password_hash(row.password, p)
                   /\ row.role = "farmer"
             /\ ~(u = ADMIN_USERNAME /\ p = ADMIN_PASSWORD)]_vars

\* C2: a protected route requested without an authenticated session is
\* rejected, and admin_dashboard renders the user list only for a principal
\* with role admin, never for a persisted farmer whatever its username.
C2_AdminDashboardOnlyForAdminRole ==
    [][/\ \A m \in ProviderModes, w \in BOOLEAN :
             (~is_authenticated(users, session) /\
                (\/ logout \/ farmer_dashboard \/ admin_dashboard
                 \/ api_latest_iot \/ api_point_ndvi(m, w)
                 \/ api_polygon_ndvi(m)))
             => resp'.status = "unauthorized"
       /\ (admin_dashboard /\ resp'.status = "rendered")
             => current_user(users, session).role = "admin"]_vars

UniqueUsernames ==
    \A i, j \in 1..Len(users) :
        users[i].username = users[j].username => i = j

\* C3: register(u, p) called when a row with username u exists answers with
\* the duplicate-username outcome and leaves the User table unchanged, and
\* no two User rows ever share a username.
C3_DuplicateRegisterConflicts ==
    /\ []UniqueUsernames
    /\ [][\A u \in { row.username : row \in Rows(users) } :
           \A p \in PasswordInputs :
             register_query(u, p)
             => /\ resp' = Response("register", Form(u), "conflict", NoOut)
                /\ users' = users
                /\ inflight' = inflight]_vars

\* a duplicate registration was turned away while the table held a row
C3_Witness ==
    /\ resp.op = "register" /\ resp.status = "conflict"
    /\ resp.form.username = Bob
    /\ \E row \in Rows(users) : row.username = Bob

AdminLoginSucceeded ==
    /\ resp'.op = "admin_login"
    /\ resp'.status = "redirect_admin_dashboard"
    /\ session' = FakeAdmin_get_id

AdminLoginFailed ==
    /\ resp'.op = "admin_login"
    /\ resp'.status = "invalid"
    /\ session' = session

\* C4 as stated: admin_login(u, p) establishes a session if and only if
\* (u, p) is exactly the fixed pair, and never changes either table.
C4_ExactPairOnly ==
    [][\A u \in UsernameInputs, p \in PasswordInputs :
          (resp'.op = "admin_login" /\ admin_login(u, p)) =>
             /\ IF u = ADMIN_USERNAME /\ p = ADMIN_PASSWORD
                THEN AdminLoginSucceeded ELSE AdminLoginFailed
             /\ users' = users /\ readings' = readings]_vars

\* C4 amended: admin_login(u, p) establishes a session if and only if u with
\* its leading and trailing whitespace removed is the fixed admin username
\* and p is exactly the fixed admin password; it never changes either table.
C4_StrippedPairOnly ==
    [][\A u \in UsernameInputs, p \in PasswordInputs :
          (resp'.op = "admin_login" /\ admin_login(u, p)) =>
             /\ IF strip(u) = ADMIN_USERNAME /\ p = ADMIN_PASSWORD
                THEN AdminLoginSucceeded ELSE AdminLoginFailed
             /\ users' = users /\ readings' = readings]_vars

\* an admin login with a padded username went through while the User table
\* held a row
C4_Witness ==
    /\ resp.op = "admin_login" /\ resp.status = "redirect_admin_dashboard"
    /\ resp.form.username = ADMIN_USERNAME \o <<" ">>
    /\ session = FakeAdmin_get_id
    /\ users # <<>>

\* C8: every authenticated session has one role out of farmer and admin, and
\* no User row has role admin or the fixed admin username.
C8_AdminNeverPersisted ==
    /\ is_authenticated(users, session)
          => current_user(users, session).role \in { "farmer", "admin" }
    /\ \A row \in Rows(users) :
          row.role # "admin" /\ row.username # ADMIN_USERNAME

\* C10: while the session holds the identity written by a successful
\* admin_login, the user loader yields the admin principal, so
\* admin_dashboard is authenticated and renders the list of all users.
C10_AdminSessionReachesDashboard ==
    [][(session = FakeAdmin_get_id /\ admin_dashboard)
          => /\ current_user(users, session) # None
             /\ current_user(users, session).role = "admin"
             /\ resp'.status = "rendered"
             /\ resp'.out.users = users]_vars

----------------------------------------------------------------------------
(* Specification of the API layer: the endpoints are exercised from the    *)
(* states the authentication layer leaves behind - one registered farmer,  *)
(* and a browser that is anonymous, logged in as that farmer, or holding   *)
(* the cookie written by admin_login.                                      *)

FarmerBob ==
    [id |-> 1, username |-> Bob,
     password |-> generate_password_hash("pw", "s1"), role |-> "farmer"]

InitApi ==
    /\ users = <<FarmerBob>>
    /\ readings = <<>>
    /\ session \in { NoSession, User_get_id(FarmerBob), FakeAdmin_get_id }
    /\ inflight = EmptyBag
    /\ clock = 0
    /\ ee_ok \in BOOLEAN
    /\ resp = Response("start", NoForm, "none", NoOut)

NextApi ==
    \/ \E b \in UploadBodies, ok \in BOOLEAN : api_iot_upload(b, ok)
    \/ api_latest_iot
    \/ Tick
    \/ \E m \in ProviderModes, w \in BOOLEAN : api_point_ndvi(m, w)
    \/ \E m \in ProviderModes : api_polygon_ndvi(m)

SpecApi == InitApi /\ [][NextApi]_vars

----------------------------------------------------------------------------
(* Claims about the API layer (checked under SpecApi) *)

HasCorrectKey(b) ==
    b.kind = "object" /\ dict_get(b.obj, "api_key") = IOT_API_KEY

\* C5: an upload whose JSON object carries an api_key other than the shared
\* secret, or no api_key at all, answers 403 and leaves the IoTReading table
\* unchanged.
C5_BadSecretIs403 ==
    [][\A b \in UploadBodies, ok \in BOOLEAN :
          (b.kind = "object" /\ ~HasCorrectKey(b) /\ api_iot_upload(b, ok))
          => resp'.status = "403" /\ readings' = readings]_vars

\* the value the body supplies for a sensor field: its number (written as a
\* JSON number or as a numeric string), 0 when the field is absent or null
Supplied(obj, k) ==
    IF k \in DOMAIN obj /\ obj[k].t = "num" THEN obj[k].n
    ELSE IF k \in DOMAIN obj /\ obj[k].t = "str"
              /\ obj[k].s \in DOMAIN NumericStrings
         THEN NumericStrings[obj[k].s]
    ELSE 0

\* exactly one row is appended, holding the supplied values, and the answer
\* carries its id
OneRowAdded(b) ==
    /\ Len(readings') = Len(readings) + 1
    /\ SubSeq(readings', 1, Len(readings)) = readings
    /\ LET r == readings'[Len(readings')]
       IN  /\ r.cap_soil_pct = Supplied(b.obj, "cap_soil_pct")
           /\ r.res_soil_pct = Supplied(b.obj, "res_soil_pct")
           /\ r.rain_pct = Supplied(b.obj, "rain_pct")
           /\ r.water_level_pct = Supplied(b.obj, "water_level_pct")
           /\ r.temperature_c = Supplied(b.obj, "temperature_c")
           /\ r.humidity_pct = Supplied(b.obj, "humidity_pct")
           /\ \A i \in 1..Len(readings) : readings[i].id # r.id
           /\ resp' = Response("iot_upload", NoForm, "200", [id |-> r.id])

\* every sensor value the body supplies is a JSON number, a numeric string
\* or null
NumbersOnly(b) ==
    \A k \in SensorNames \cap DOMAIN b.obj :
        \/ b.obj[k].t \in { "num", "null" }
        \/ b.obj[k].t = "str" /\ b.obj[k].s \in DOMAIN NumericStrings

\* C6 as stated: an upload with the correct secret (its commit going
\* through) adds exactly one row holding the supplied values, absent fields
\* stored as 0.0, and answers ok with the new id.
C6_UploadAddsOneRow ==
    [][\A b \in UploadBodies :
          (HasCorrectKey(b) /\ api_iot_upload(b, TRUE))
          => OneRowAdded(b)]_vars

\* C6 amended: an upload with the correct secret whose supplied sensor
\* values are each a JSON number, a numeric string or null, and whose commit
\* goes through, adds exactly one row holding those numbers, absent and null
\* fields stored as 0.0, and answers ok with the new id.
C6_NumericUploadAddsOneRow ==
    [][\A b \in UploadBodies :
          (HasCorrectKey(b) /\ NumbersOnly(b) /\ api_iot_upload(b, TRUE))
          => OneRowAdded(b)]_vars

\* an upload that supplied only some of the fields was stored
C6_Witness ==
    /\ resp.op = "iot_upload" /\ resp.status = "200"
    /\ \E r \in Rows(readings) :
          /\ r.id = resp.out.id
          /\ r.temperature_c = 7
          /\ r.cap_soil_pct = 0

\* C7: for an authenticated session latest_iot answers 404 exactly when the
\* table is empty, and otherwise returns the fields of the most recently
\* inserted reading.
C7_LatestIsLastInserted ==
    [][(is_authenticated(users, session) /\ api_latest_iot)
          => /\ resp'.status = "404" <=> readings = <<>>
             /\ readings # <<>> =>
                   /\ resp'.status = "200"
                   /\ resp'.out = reading_json(readings[Len(readings)])]_vars

\* the provider is not initialized, finds no scene, or raises
ProviderFails(m) == ~ee_ok \/ m \in { "no_scene", "error" }

PlaceholderHtml ==
    { "ndvi_unavailable", "no_image", "ndvi_map_error" }

\* C9: under every provider failure mode an authenticated point_ndvi request
\* answers normally with ndvi_value null, an empty time series and
\* placeholder HTML, and an authenticated polygon_ndvi request answers with
\* stats null; no request ends in an unhandled exception.
C9_ProviderFailureDegrades ==
    [][\A m \in ProviderModes, w \in BOOLEAN :
          /\ (is_authenticated(users, session) /\ ProviderFails(m)
                /\ api_point_ndvi(m, w))
             => /\ resp'.status = "200"
                /\ resp'.out.ndvi_value = "null"
                /\ resp'.out.ts_dates = <<>> /\ resp'.out.ts_values = <<>>
                /\ resp'.out.ndvi_map \in PlaceholderHtml
          /\ (is_authenticated(users, session) /\ ProviderFails(m)
                /\ api_polygon_ndvi(m))
             => /\ resp'.status = "200"
                /\ resp'.out.stats = "null"]_vars

====
